---- MODULE Spec2Model ----
(***************************************************************************)
(* Leave-accounting engine of holiday_dashboard (leave_service.py) on top  *)
(* of the JSON state store (storage.py).                                   *)
(*                                                                         *)
(* Amounts are counted in half days, so that the 0.5 of a half-day leave   *)
(* is the integer 1: 25.0 days is 50, 5.0 days is 10, a full day is 2.     *)
(* A date "YYYY-MM-DD" is the integer YYYYMMDD, which orders as the dates  *)
(* do.  A uuid is the next unused positive integer.                        *)
(*                                                                         *)
(* The stored document is a value: json.dumps writes the application once  *)
(* under "applications" and once inside its yearly record, and json.loads  *)
(* gives back two separate dictionaries.  The model keeps the two copies   *)
(* apart in the same way (doc.applications[id] and the element of          *)
(* record.applications).                                                   *)
(***************************************************************************)
EXTENDS Integers, Sequences, FiniteSets, TLC

VARIABLES
    store,   \* the document held by data/state.json
    issued,  \* how many application ids uuid4 has handed out
    pc,      \* per thread: where it stands in the operation it runs
    local,   \* per thread: the `state` dictionary of the running operation
    call,    \* per thread: the operation called last and its arguments
    ret,     \* per thread: what the last operation returned or raised
    storage  \* storage.py: state.json and state.tmp on disk, and _STATE_LOCK

vars == <<store, issued, pc, local, call, ret, storage>>

---------------------------------------------------------------------------
(* Program constants, leave_service.py lines 12-21.                        *)

LEAVE_TYPES == [full |-> 2, first_half |-> 1, second_half |-> 1]

ANNUAL_ALLOCATION == 2 * 25

MAX_CARRY_OVER == 2 * 5

CARRY_OVER_EXPIRY_MONTH == 3

CARRY_OVER_EXPIRY_DAY == 31

\* _current_year(): the year of today's date, fixed for a run of the model.
CurrentYear == 2024

\* get_balance's `year=None`.
NoYear == 0

---------------------------------------------------------------------------
(* Bounds of the model.                                                    *)

\* Applications filed in a run of Spec, SpecErrors, SpecQueries and SpecThreads.
MaxApps == 2

\* Applications filed in a run of SpecYear and SpecYearThreads.
MaxYearApps == 26

\* Applications of SpecYear that wait for a decision at the same time.
MaxPending == 2

---------------------------------------------------------------------------
(* Values.                                                                 *)

Max(a, b) == IF a >= b THEN a ELSE b

Min(a, b) == IF a <= b THEN a ELSE b

Date(y, m, d) == y * 10000 + m * 100 + d

\* dt.datetime.strptime(date, "%Y-%m-%d").date().year
DateYear(date) == date \div 10000

DateMonth(date) == (date \div 100) % 100

DateDay(date) == date % 100

DaysInMonth(year, month) ==
    IF month = 2
    THEN IF (year % 4 = 0 /\ year % 100 # 0) \/ year % 400 = 0 THEN 29 ELSE 28
    ELSE IF month \in {4, 6, 9, 11} THEN 30 ELSE 31

\* strptime(date, "%Y-%m-%d") succeeds: the text names a day of the calendar.
IsDate(date) ==
    /\ DateMonth(date) \in 1..12
    /\ DateDay(date) \in 1..DaysInMonth(DateYear(date), DateMonth(date))

\* str.lower() on the decisions the callers send.
Lower(decision) ==
    CASE decision = "Approved" -> "approved"
      [] decision = "REJECTED" -> "rejected"
      [] OTHER -> decision

EmptyMap == [k \in {} |-> 0]

Put(map, k, v) == [x \in (DOMAIN map) \cup {k} |-> IF x = k THEN v ELSE map[x]]

EmptyDoc == [employees |-> EmptyMap, applications |-> EmptyMap]

\* An application without the "allocation_breakdown" key; .get(..., 0.0)
\* reads its portions as 0.
NoBreakdown == [present |-> FALSE, carry_over |-> 0, current_year |-> 0]

Breakdown(c, y) == [present |-> TRUE, carry_over |-> c, current_year |-> y]

NoBalance == [year |-> 0, allocation |-> 0, carry_over |-> 0,
              used_current_year |-> 0, used_carry_over |-> 0,
              remaining_current_year |-> 0, remaining_carry_over |-> 0]

NoCall == [op |-> "none", employee_id |-> "", name |-> "", date |-> 0,
           leave_type |-> "", application_id |-> 0, decision |-> "", year |-> 0]

NoRet == [code |-> "none", balance |-> NoBalance]

Ok == [code |-> "ok", balance |-> NoBalance]

Raise(kind) == [code |-> kind, balance |-> NoBalance]

\* app["allocation_breakdown"][portion] if app["status"] == "approved", else
\* nothing: the term of the sums over a record's applications.
ApprovedPortion(app, portion) ==
    IF app.status = "approved" THEN app.allocation_breakdown[portion] ELSE 0

RECURSIVE SumSeq(_, _)
\* sum(app["allocation_breakdown"][portion] for app in seq
\*     if app["status"] == "approved")
SumSeq(portion, seq) ==
    IF seq = <<>> THEN 0
    ELSE ApprovedPortion(Head(seq), portion) + SumSeq(portion, Tail(seq))

---------------------------------------------------------------------------
(* storage.py                                                              *)

\* No temporary file in the data directory.
NoTmp == [state |-> "absent", doc |-> EmptyDoc]

\* state.json is there and whole (`store` is what it holds), state.tmp is
\* not, and no thread holds _STATE_LOCK.
StorageAtRest == [file |-> "complete", tmp |-> NoTmp, lock |-> 0]

\* load_state: the document as json.loads returns it.
load_state == store

\* save_state(state): the document that replaces the file.
save_state(state) == state

---------------------------------------------------------------------------
(* leave_service.py: helpers                                               *)

calculate_carry_over(employee, year) ==
    LET records == employee.yearly_records IN
    IF (year - 1) \notin DOMAIN records
    THEN 0
    ELSE LET previous_record == records[year - 1]
             used_current_allocation ==
                 SumSeq("current_year", previous_record.applications)
             unused_current ==
                 Max(0, previous_record.allocation - used_current_allocation)
         IN  Min(MAX_CARRY_OVER, unused_current)

new_year_record(employee, year) ==
    [year |-> year,
     allocation |-> ANNUAL_ALLOCATION,
     carry_over |-> calculate_carry_over(employee, year),
     carry_over_expiry |-> Date(year, CARRY_OVER_EXPIRY_MONTH, CARRY_OVER_EXPIRY_DAY),
     applications |-> <<>>]

\* The employee after _ensure_year_record(employee, year).
ensure_year_record(employee, year) ==
    IF year \in DOMAIN employee.yearly_records
    THEN employee
    ELSE [employee EXCEPT
            !.yearly_records = Put(@, year, new_year_record(employee, year))]

available_allocation(record) ==
    LET used_carry_over == SumSeq("carry_over", record.applications)
        used_current_year == SumSeq("current_year", record.applications)
    IN  [carry |-> Max(0, record.carry_over - used_carry_over),
         current |-> Max(0, record.allocation - used_current_year)]

\* As allocate_for_date, without the comparison with the expiry date.
allocate_for_date_no_expiry(record, leave_date, duration) ==
    LET avail == available_allocation(record)
        use_carry == Min(duration, avail.carry)
        residual == duration - use_carry
    IN  [ok |-> ~(residual > avail.current),
         breakdown |-> Breakdown(use_carry, residual)]

\* As allocate_for_date, without line 202: the carry-over drawn is not taken
\* off the duration.
allocate_for_date_whole_duration(record, leave_date, duration) ==
    LET avail == available_allocation(record)
        use_carry == IF leave_date <= record.carry_over_expiry
                     THEN Min(duration, avail.carry)
                     ELSE 0
    IN  [ok |-> ~(duration > avail.current),
         breakdown |-> Breakdown(use_carry, duration)]

allocate_for_date(record, leave_date, duration) ==
    LET avail == available_allocation(record)
        use_carry == IF leave_date <= record.carry_over_expiry
                     THEN Min(duration, avail.carry)
                     ELSE 0
        residual == duration - use_carry
    IN  [ok |-> ~(residual > avail.current),
         breakdown |-> Breakdown(use_carry, residual)]

---------------------------------------------------------------------------
(* What a call starts from and how it ends.                                *)

Threads == {1, 2}

Init ==
    /\ store = EmptyDoc
    /\ issued = 0
    /\ pc = [t \in Threads |-> "idle"]
    /\ local = [t \in Threads |-> EmptyDoc]
    /\ call = [t \in Threads |-> NoCall]
    /\ ret = [t \in Threads |-> NoRet]
    /\ storage = StorageAtRest

\* The operation's first statement: state = load_state().
Enter(t, c, at) ==
    /\ pc[t] = "idle"
    /\ pc' = [pc EXCEPT ![t] = at]
    /\ call' = [call EXCEPT ![t] = c]
    /\ ret' = [ret EXCEPT ![t] = NoRet]
    /\ local' = [local EXCEPT ![t] = load_state]
    /\ UNCHANGED <<store, issued, storage>>

\* The operation ends with the result r; its `state` goes with its frame.
Leave(t, r) ==
    /\ pc' = [pc EXCEPT ![t] = "idle"]
    /\ ret' = [ret EXCEPT ![t] = r]
    /\ local' = [local EXCEPT ![t] = EmptyDoc]
    /\ UNCHANGED call

\* raise LeaveError from the checks that come before load_state.
RaiseAtCall(t, c, kind) ==
    /\ pc[t] = "idle"
    /\ call' = [call EXCEPT ![t] = c]
    /\ ret' = [ret EXCEPT ![t] = Raise(kind)]
    /\ UNCHANGED <<store, issued, pc, local, storage>>

\* raise LeaveError: nothing is written.
Fail(t, kind) ==
    /\ Leave(t, Raise(kind))
    /\ UNCHANGED <<store, issued, storage>>

\* save_state(state) as the last statement, then return.
SaveAndReturn(t, state, r) ==
    /\ store' = save_state(state)
    /\ Leave(t, r)
    /\ UNCHANGED storage

HasYearRecord(state, employee_id, year) ==
    /\ employee_id \in DOMAIN state.employees
    /\ year \in DOMAIN state.employees[employee_id].yearly_records

\* _get_or_create_year_record(state, employee, year): the state afterwards,
\* and whether it made the record and so called save_state(state).
get_or_create_year_record(state, employee_id, year) ==
    IF HasYearRecord(state, employee_id, year)
    THEN [state |-> state, saved |-> FALSE]
    ELSE [state |-> [state EXCEPT !.employees[employee_id] =
                                      ensure_year_record(@, year)],
          saved |-> TRUE]

---------------------------------------------------------------------------
(* create_employee                                                         *)

create_employee_call(t, name, employee_id) ==
    Enter(t, [NoCall EXCEPT !.op = "create_employee", !.name = name,
                            !.employee_id = employee_id], "create_employee")

\* As create_employee_return, with the employee put into the state and saved
\* before the id is looked up.
create_employee_return_late_check(t) ==
    /\ pc[t] = "create_employee"
    /\ LET state == local[t]
           employee_id == call[t].employee_id
           employee == ensure_year_record(
               [id |-> employee_id, name |-> call[t].name,
                yearly_records |-> EmptyMap], CurrentYear)
       IN  /\ store' = save_state(
                   [state EXCEPT !.employees = Put(@, employee_id, employee)])
           /\ Leave(t, IF employee_id \in DOMAIN state.employees
                       THEN Raise("DuplicateEmployee") ELSE Ok)
           /\ UNCHANGED <<issued, storage>>

create_employee_return(t) ==
    /\ pc[t] = "create_employee"
    /\ LET state == local[t]
           employee_id == call[t].employee_id
           employee == ensure_year_record(
               [id |-> employee_id, name |-> call[t].name,
                yearly_records |-> EmptyMap], CurrentYear)
       IN  IF employee_id \in DOMAIN state.employees
           THEN Fail(t, "DuplicateEmployee")
           ELSE /\ SaveAndReturn(t,
                     [state EXCEPT !.employees = Put(@, employee_id, employee)], Ok)
                /\ UNCHANGED issued

---------------------------------------------------------------------------
(* apply_for_leave                                                         *)

apply_for_leave_call(t, employee_id, date, leave_type) ==
    LET c == [NoCall EXCEPT !.op = "apply_for_leave", !.employee_id = employee_id,
                            !.date = date, !.leave_type = leave_type]
    IN  IF leave_type \notin DOMAIN LEAVE_TYPES
        THEN RaiseAtCall(t, c, "InvalidLeaveType")
        ELSE IF ~IsDate(date)
        THEN RaiseAtCall(t, c, "InvalidDate")
        ELSE Enter(t, [c EXCEPT !.year = DateYear(date)], "apply_for_leave")

\* _collect_year_record: _ensure_employee, then _get_or_create_year_record,
\* which saves the state when it had to make the record.
apply_for_leave_collect(t) ==
    /\ pc[t] = "apply_for_leave"
    /\ LET state == local[t]
           employee_id == call[t].employee_id
           year == call[t].year
       IN  IF employee_id \notin DOMAIN state.employees
           THEN Fail(t, "NotFound")
           ELSE LET got == get_or_create_year_record(state, employee_id, year)
                IN  /\ pc' = [pc EXCEPT ![t] = "apply_for_leave_append"]
                    /\ local' = [local EXCEPT ![t] = got.state]
                    /\ store' = IF got.saved THEN save_state(got.state) ELSE store
                    /\ UNCHANGED <<issued, call, ret, storage>>

new_application(application_id, c) ==
    [id |-> application_id,
     employee_id |-> c.employee_id,
     year |-> c.year,
     date |-> c.date,
     leave_type |-> c.leave_type,
     duration |-> LEAVE_TYPES[c.leave_type],
     status |-> "pending",
     history |-> <<>>,
     allocation_breakdown |-> NoBreakdown]

\* As apply_for_leave_return, without line 167: the application is put into
\* the application index only.
apply_for_leave_return_index_only(t) ==
    /\ pc[t] = "apply_for_leave_append"
    /\ LET state == local[t]
           application_id == issued + 1
           application == new_application(application_id, call[t])
           linked == [state EXCEPT
               !.applications = Put(@, application_id, application)]
       IN  /\ issued' = application_id
           /\ SaveAndReturn(t, linked, Ok)

apply_for_leave_return(t) ==
    /\ pc[t] = "apply_for_leave_append"
    /\ LET state == local[t]
           application_id == issued + 1
           application == new_application(application_id, call[t])
           linked == [state EXCEPT
               !.employees[call[t].employee_id].yearly_records[call[t].year].applications
                   = Append(@, application),
               !.applications = Put(@, application_id, application)]
       IN  /\ issued' = application_id
           /\ SaveAndReturn(t, linked, Ok)

---------------------------------------------------------------------------
(* decide_leave                                                            *)

decide_leave_call(t, application_id, decision) ==
    LET c == [NoCall EXCEPT !.op = "decide_leave", !.application_id = application_id,
                            !.decision = Lower(decision)]
    IN  IF c.decision \notin {"approved", "rejected"}
        THEN RaiseAtCall(t, c, "InvalidDecision")
        ELSE Enter(t, c, "decide_leave")

\* The application after lines 236-244: the breakdown, the status and the
\* history entry are set on the dictionary _find_application returned.
decided_application(application, decision, breakdown) ==
    [application EXCEPT
        !.allocation_breakdown = breakdown,
        !.status = decision,
        !.history = Append(@, [acted_by |-> "approver", decision |-> decision])]

\* Line 223: only a pending application is processed.
is_pending(application) == application.status = "pending"

\* Lines 236-241: the breakdown of the decision, or the failed balance check.
decision_split(record, application, decision) ==
    IF decision = "approved"
    THEN allocate_for_date(record, application.date, application.duration)
    ELSE [ok |-> TRUE, breakdown |-> Breakdown(0, 0)]

\* The record of an application exists in every document that holds the
\* application, so _get_or_create_year_record finds it; were it missing, the
\* record would be saved before the balance check.
decide_leave_return(t) ==
    /\ pc[t] = "decide_leave"
    /\ LET loaded == local[t]
           application_id == call[t].application_id
           decision == call[t].decision
       IN  IF application_id \notin DOMAIN loaded.applications
           THEN Fail(t, "NotFound")
           ELSE
           LET application == loaded.applications[application_id] IN
           IF ~is_pending(application)
           THEN Fail(t, "InvalidState")
           ELSE IF application.employee_id \notin DOMAIN loaded.employees
           THEN Fail(t, "NotFound")
           ELSE
           LET got == get_or_create_year_record(loaded, application.employee_id,
                                                application.year)
               state == got.state
               record == state.employees[application.employee_id]
                              .yearly_records[application.year]
               split == decision_split(record, application, decision)
           IN  IF ~split.ok
               THEN /\ Leave(t, Raise("InsufficientBalance"))
                    /\ store' = IF got.saved THEN save_state(state) ELSE store
                    /\ UNCHANGED <<issued, storage>>
               ELSE /\ SaveAndReturn(t,
                         [state EXCEPT !.applications[application_id] =
                             decided_application(application, decision, split.breakdown)],
                         Ok)
                    /\ UNCHANGED issued

---------------------------------------------------------------------------
(* get_balance                                                             *)

get_balance_call(t, employee_id, year) ==
    Enter(t, [NoCall EXCEPT !.op = "get_balance", !.employee_id = employee_id,
                            !.year = IF year = NoYear THEN CurrentYear ELSE year],
          "get_balance")

balance_of(record) ==
    LET avail == available_allocation(record) IN
    [year |-> record.year,
     allocation |-> record.allocation,
     carry_over |-> record.carry_over,
     used_current_year |-> SumSeq("current_year", record.applications),
     used_carry_over |-> SumSeq("carry_over", record.applications),
     remaining_current_year |-> avail.current,
     remaining_carry_over |-> avail.carry]

get_balance_return(t) ==
    /\ pc[t] = "get_balance"
    /\ LET loaded == local[t]
           employee_id == call[t].employee_id
           year == call[t].year
       IN  IF employee_id \notin DOMAIN loaded.employees
           THEN Fail(t, "NotFound")
           ELSE
           LET got == get_or_create_year_record(loaded, employee_id, year)
               state == got.state
               record == state.employees[employee_id].yearly_records[year]
               r == [code |-> "ok", balance |-> balance_of(record)]
           IN  /\ store' = IF got.saved THEN save_state(state) ELSE store
               /\ Leave(t, r)
               /\ UNCHANGED <<issued, storage>>

---------------------------------------------------------------------------
(* Callers.                                                                *)

\* Calls of apply_for_leave that have not returned yet.
Applying == Cardinality({t \in Threads : pc[t] \in {"apply_for_leave",
                                                     "apply_for_leave_append"}})

\* The calls thread t can make, with arguments drawn from `in`.
Calls(t, in) ==
    \/ \E name \in in.names, employee_id \in in.employee_ids :
           create_employee_call(t, name, employee_id)
    \/ \E employee_id \in in.employee_ids, date \in in.dates,
          leave_type \in in.leave_types :
           /\ issued + Applying < in.max_apps
           /\ apply_for_leave_call(t, employee_id, date, leave_type)
    \/ \E application_id \in 1..(issued + 1), decision \in in.decisions :
           decide_leave_call(t, application_id, decision)
    \/ \E employee_id \in in.employee_ids, year \in in.years :
           get_balance_call(t, employee_id, year)

Steps(t) ==
    \/ create_employee_return(t)
    \/ apply_for_leave_collect(t)
    \/ apply_for_leave_return(t)
    \/ decide_leave_return(t)
    \/ get_balance_return(t)

\* Leave on the last day the carry-over of next year can be spent, on the
\* day after it, and in the current year.
SpecInputs ==
    [names |-> {"Ann"},
     employee_ids |-> {"e1"},
     dates |-> {Date(CurrentYear, 4, 1), Date(CurrentYear + 1, 3, 31),
                Date(CurrentYear + 1, 4, 1)},
     leave_types |-> DOMAIN LEAVE_TYPES,
     decisions |-> {"approved", "rejected"},
     years |-> {NoYear, CurrentYear + 1, CurrentYear + 2},
     max_apps |-> MaxApps]

\* One caller: every operation returns before the next one is called.
Next == Calls(1, SpecInputs) \/ Steps(1)

Spec == Init /\ [][Next]_vars

\* Callers that also send what the operations refuse: a leave type and a
\* decision that do not exist, a day that is not in the calendar.
ErrorInputs ==
    [names |-> {"Ann"},
     employee_ids |-> {"e1"},
     dates |-> {Date(CurrentYear + 1, 3, 31), Date(CurrentYear, 2, 30)},
     leave_types |-> {"full", "quarter"},
     decisions |-> {"approved", "Approved", "rejected", "maybe"},
     years |-> {NoYear, CurrentYear + 1},
     max_apps |-> MaxApps]

NextErrors == Calls(1, ErrorInputs) \/ Steps(1)

SpecErrors == Init /\ [][NextErrors]_vars

\* Two request threads: the calls interleave at every load and save.
ThreadsInputs ==
    [names |-> {"Ann"},
     employee_ids |-> {"e1"},
     dates |-> {Date(CurrentYear + 1, 3, 31)},
     leave_types |-> {"full"},
     decisions |-> {"approved", "rejected"},
     years |-> {CurrentYear + 1, CurrentYear + 2},
     max_apps |-> MaxApps]

NextThreads == \E t \in Threads : Calls(t, ThreadsInputs) \/ Steps(t)

SpecThreads == Init /\ [][NextThreads]_vars

---------------------------------------------------------------------------
(* A year of leave: one employee files full days in date order, first in   *)
(* the current year after the expiry date, then in the next year up to the *)
(* expiry date, and each is approved while at most MaxPending wait.        *)

YearDates == {Date(CurrentYear, 4, 1), Date(CurrentYear + 1, 3, 31)}

PendingIds == {id \in DOMAIN store.applications :
                   store.applications[id].status = "pending"}

InDateOrder(date) == \A id \in DOMAIN store.applications :
                         store.applications[id].date <= date

YearCalls(t) ==
    \/ create_employee_call(t, "Ann", "e1")
    \/ \E date \in YearDates :
           /\ issued + Applying < MaxYearApps
           /\ Cardinality(PendingIds) + Applying < MaxPending
           /\ InDateOrder(date)
           /\ apply_for_leave_call(t, "e1", date, "full")
    \/ \E application_id \in PendingIds :
           decide_leave_call(t, application_id, "approved")
    \/ \E year \in {CurrentYear, CurrentYear + 1} :
           get_balance_call(t, "e1", year)

NextYear == YearCalls(1) \/ Steps(1)

SpecYear == Init /\ [][NextYear]_vars

\* The same year, the leave all in the current year, with a second approver:
\* thread 1 files the leave while no decision is under way and decides it,
\* and thread 2 decides one pending application at any moment of the year.
YearThreadsCalls ==
    \/ create_employee_call(1, "Ann", "e1")
    \/ /\ issued + Applying < MaxYearApps
       /\ Cardinality(PendingIds) + Applying < MaxPending
       /\ \A t \in Threads : pc[t] = "idle"
       /\ apply_for_leave_call(1, "e1", Date(CurrentYear, 4, 1), "full")
    \/ \E application_id \in PendingIds :
           decide_leave_call(1, application_id, "approved")
    \/ \E application_id \in PendingIds :
           /\ call[2] = NoCall
           /\ decide_leave_call(2, application_id, "approved")

YearThreadsSteps(t) ==
    \/ create_employee_return(t)
    \/ apply_for_leave_collect(t)
    \/ apply_for_leave_return(t)
    \/ decide_leave_return(t)

NextYearThreads == YearThreadsCalls \/ \E t \in Threads : YearThreadsSteps(t)

SpecYearThreads == Init /\ [][NextYearThreads]_vars

---------------------------------------------------------------------------
(* What the claims speak of.                                               *)

RECURSIVE SumIds(_, _, _)
\* The sum of the approved portions of doc.applications[id] over the ids of S.
SumIds(portion, doc, S) ==
    IF S = {} THEN 0
    ELSE LET id == CHOOSE x \in S : TRUE
         IN  ApprovedPortion(doc.applications[id], portion) + SumIds(portion, doc, S \ {id})

\* The applications of an employee's year, as the application index holds
\* them: the copies decide_leave updates and get_applications returns.
IdsOf(doc, employee_id, year) ==
    {id \in DOMAIN doc.applications :
        /\ doc.applications[id].employee_id = employee_id
        /\ doc.applications[id].year = year}

UsedCurrentYear(doc, employee_id, year) ==
    SumIds("current_year", doc, IdsOf(doc, employee_id, year))

UsedCarryOver(doc, employee_id, year) ==
    SumIds("carry_over", doc, IdsOf(doc, employee_id, year))

RecordOf(doc, employee_id, year) == doc.employees[employee_id].yearly_records[year]

RecordKeys(doc) ==
    {k \in (DOMAIN doc.employees) \X {CurrentYear + d : d \in 0..2} :
        k[2] \in DOMAIN doc.employees[k[1]].yearly_records}

\* Thread t is back from the operation op.
Returned(t, op) == pc[t] = "idle" /\ call[t].op = op

\* Thread t returns from decide_leave in this step.
DecideReturns(t) == pc[t] = "decide_leave" /\ pc'[t] = "idle"

---------------------------------------------------------------------------
(* C5. An application's status changes at most once, from pending to       *)
(* approved or rejected: deciding an application that is already approved  *)
(* or rejected fails with InvalidState and leaves its status, history and  *)
(* allocation_breakdown as they were.                                      *)

C5_Step ==
    /\ \A id \in (DOMAIN store.applications) \cap (DOMAIN store'.applications) :
           store'.applications[id].status # store.applications[id].status
           => /\ store.applications[id].status = "pending"
              /\ store'.applications[id].status \in {"approved", "rejected"}
    /\ \A t \in Threads :
           (/\ DecideReturns(t)
            /\ call[t].application_id \in DOMAIN local[t].applications
            /\ local[t].applications[call[t].application_id].status # "pending")
           => /\ ret'[t].code = "InvalidState"
              /\ store' = store

C5_DecidedOnce == [][C5_Step]_vars

---------------------------------------------------------------------------
(* C7. Once a yearly record exists for an employee and a year, its         *)
(* carry_over, allocation and carry_over_expiry are the same in every      *)
(* later stored document, also after approvals in the year before and      *)
(* after the record of the year before is made.                            *)

C7_Step ==
    \A k \in RecordKeys(store) \cap RecordKeys(store') :
        /\ RecordOf(store', k[1], k[2]).carry_over = RecordOf(store, k[1], k[2]).carry_over
        /\ RecordOf(store', k[1], k[2]).allocation = RecordOf(store, k[1], k[2]).allocation
        /\ RecordOf(store', k[1], k[2]).carry_over_expiry
               = RecordOf(store, k[1], k[2]).carry_over_expiry

C7_RecordFixed == [][C7_Step]_vars

---------------------------------------------------------------------------
(* C8. An application approved for a date after its record's               *)
(* carry_over_expiry has allocation_breakdown.carry_over = 0 and           *)
(* current_year = its whole duration, also when carry-over is left.        *)

C8_NoCarryAfterExpiry ==
    \A id \in DOMAIN store.applications :
        LET app == store.applications[id] IN
        (/\ app.status = "approved"
         /\ <<app.employee_id, app.year>> \in RecordKeys(store)
         /\ app.date > RecordOf(store, app.employee_id, app.year).carry_over_expiry)
        => app.allocation_breakdown = Breakdown(0, app.duration)

C8_Witness ==
    \E id \in DOMAIN store.applications :
        LET app == store.applications[id] IN
        /\ app.status = "approved"
        /\ app.date > RecordOf(store, app.employee_id, app.year).carry_over_expiry
        /\ RecordOf(store, app.employee_id, app.year).carry_over
               - UsedCarryOver(store, app.employee_id, app.year) > 0

---------------------------------------------------------------------------
(* C10. Rejecting a pending application succeeds whatever the balance is,  *)
(* records the breakdown {carry_over: 0, current_year: 0}, and leaves the  *)
(* used and remaining amounts of every yearly record as they were.         *)

SameAmounts(k) ==
    /\ balance_of(RecordOf(store', k[1], k[2])) = balance_of(RecordOf(store, k[1], k[2]))
    /\ UsedCurrentYear(store', k[1], k[2]) = UsedCurrentYear(store, k[1], k[2])
    /\ UsedCarryOver(store', k[1], k[2]) = UsedCarryOver(store, k[1], k[2])

C10_Step ==
    \A t \in Threads :
        (/\ DecideReturns(t)
         /\ call[t].decision = "rejected"
         /\ call[t].application_id \in DOMAIN local[t].applications
         /\ local[t].applications[call[t].application_id].status = "pending")
        => /\ ret'[t].code = "ok"
           /\ store'.applications[call[t].application_id].status = "rejected"
           /\ store'.applications[call[t].application_id].allocation_breakdown
                  = Breakdown(0, 0)
           /\ \A k \in RecordKeys(store) \cap RecordKeys(store') : SameAmounts(k)

C10_RejectLeavesBalances == [][C10_Step]_vars

---------------------------------------------------------------------------
(* C3. After an application is approved, get_balance for that employee and *)
(* year reports used_current_year and used_carry_over equal to the sums of *)
(* the breakdown portions of the applications approved so far for that     *)
(* year, and remaining_current_year = allocation - used_current_year.      *)

C3_BalanceCountsApproved ==
    \A t \in Threads :
        (Returned(t, "get_balance") /\ ret[t].code = "ok")
        => LET b == ret[t].balance
               e == call[t].employee_id
           IN  /\ b.used_current_year = UsedCurrentYear(store, e, b.year)
               /\ b.used_carry_over = UsedCarryOver(store, e, b.year)
               /\ b.remaining_current_year = b.allocation - b.used_current_year

---------------------------------------------------------------------------
(* C2. In every stored document, for every employee and yearly record, the *)
(* current_year portions of that year's approved applications sum to at    *)
(* most the record's allocation, and their carry_over portions to at most  *)
(* the record's carry_over.                                                *)

C2_UsageWithinEntitlement ==
    \A k \in RecordKeys(store) :
        /\ UsedCurrentYear(store, k[1], k[2]) <= RecordOf(store, k[1], k[2]).allocation
        /\ UsedCarryOver(store, k[1], k[2]) <= RecordOf(store, k[1], k[2]).carry_over

---------------------------------------------------------------------------
(* C9. Approving an application dated on or before carry_over_expiry draws *)
(* carry-over first: allocation_breakdown.carry_over = min(duration, the   *)
(* record's carry_over minus the carry_over portions of the applications   *)
(* approved earlier in the record), and current_year is the rest.          *)

\* The carry-over left to the application's record in doc.
CarryLeft(doc, app) ==
    Max(0, RecordOf(doc, app.employee_id, app.year).carry_over
               - UsedCarryOver(doc, app.employee_id, app.year))

C9_Step ==
    \A t \in Threads :
        (/\ DecideReturns(t)
         /\ call[t].decision = "approved"
         /\ ret'[t].code = "ok"
         /\ call[t].application_id \in DOMAIN store.applications
         /\ LET app == store.applications[call[t].application_id]
            IN  app.date <= RecordOf(store, app.employee_id, app.year).carry_over_expiry)
        => LET app == store.applications[call[t].application_id]
               after == store'.applications[call[t].application_id]
           IN  /\ after.allocation_breakdown.carry_over
                      = Min(app.duration, CarryLeft(store, app))
               /\ after.allocation_breakdown.current_year
                      = app.duration - after.allocation_breakdown.carry_over

C9_CarryOverFirst == [][C9_Step]_vars

---------------------------------------------------------------------------
(* C4. Approving fails with InsufficientBalance whenever the duration left *)
(* after the carry-over step exceeds the record's allocation minus the     *)
(* current_year portions of the applications approved earlier for that     *)
(* employee and year; the application then stays pending, without history  *)
(* entry or breakdown, and the stored document is unchanged.               *)

\* The duration left after the carry-over step of C9.
Residual(doc, app) ==
    IF app.date <= RecordOf(doc, app.employee_id, app.year).carry_over_expiry
    THEN app.duration - Min(app.duration, CarryLeft(doc, app))
    ELSE app.duration

C4_Step ==
    \A t \in Threads :
        (/\ DecideReturns(t)
         /\ call[t].decision = "approved"
         /\ call[t].application_id \in DOMAIN store.applications
         /\ LET app == store.applications[call[t].application_id]
            IN  /\ app.status = "pending"
                /\ Residual(store, app)
                       > RecordOf(store, app.employee_id, app.year).allocation
                             - UsedCurrentYear(store, app.employee_id, app.year))
        => /\ ret'[t].code = "InsufficientBalance"
           /\ store' = store

C4_InsufficientBalance == [][C4_Step]_vars

---------------------------------------------------------------------------
(* C6. A yearly record made for year Y has carry_over = min(MAX_CARRY_OVER,*)
(* max(0, allocation of the record of Y-1 minus the current_year usage of  *)
(* the applications approved in Y-1)), and 0 when the employee has no      *)
(* record of Y-1.                                                          *)

ExpectedCarryOver(doc, employee_id, year) ==
    IF ~HasYearRecord(doc, employee_id, year - 1)
    THEN 0
    ELSE Min(MAX_CARRY_OVER,
             Max(0, RecordOf(doc, employee_id, year - 1).allocation
                        - UsedCurrentYear(doc, employee_id, year - 1)))

C6_Step ==
    \A k \in RecordKeys(store') \ RecordKeys(store) :
        RecordOf(store', k[1], k[2]).carry_over = ExpectedCarryOver(store, k[1], k[2])

C6_CarryOverAtCreation == [][C6_Step]_vars

---------------------------------------------------------------------------
(* C1. When two approvals run concurrently on two pending applications of  *)
(* the same yearly record, each for an amount that fits the remaining      *)
(* balance alone while the two together exceed it, exactly one succeeds,   *)
(* the other fails with InsufficientBalance, and the usage stored for the  *)
(* record never exceeds the cap.                                           *)

\* Thread t returns from an approval of application a that it loaded as
\* pending together with application b of the same record, after thread u
\* has approved b; in the document t loaded, a and b each fit the remaining
\* current-year balance and the two together do not.
OverlappingApprovals(t, u, a, b) ==
    /\ DecideReturns(t)
    /\ call[t].decision = "approved"
    /\ Returned(u, "decide_leave")
    /\ call[u].decision = "approved"
    /\ ret[u].code = "ok"
    /\ a # b
    /\ {a, b} \subseteq DOMAIN local[t].applications
    /\ b \in DOMAIN store.applications
    /\ store.applications[b].status = "approved"
    /\ LET app == local[t].applications[a]
           other == local[t].applications[b]
           record == RecordOf(local[t], app.employee_id, app.year)
           left == record.allocation
                       - UsedCurrentYear(local[t], app.employee_id, app.year)
       IN  /\ app.status = "pending"
           /\ other.status = "pending"
           /\ other.employee_id = app.employee_id
           /\ other.year = app.year
           /\ app.date > record.carry_over_expiry
           /\ other.date > record.carry_over_expiry
           /\ app.duration <= left
           /\ other.duration <= left
           /\ app.duration + other.duration > left

C1_Step ==
    \A t \in Threads, u \in Threads :
        LET a == call[t].application_id
            b == call[u].application_id
        IN  (t # u /\ OverlappingApprovals(t, u, a, b))
            => /\ ret'[t].code = "InsufficientBalance"
               /\ \A k \in RecordKeys(store') :
                      UsedCurrentYear(store', k[1], k[2])
                          <= RecordOf(store', k[1], k[2]).allocation

C1_OneApprovalWins == [][C1_Step]_vars

---------------------------------------------------------------------------
(* C11. apply_for_leave for an existing employee, a recognized leave type  *)
(* and a valid date succeeds whatever balance is left, files the           *)
(* application as pending with empty history and without                   *)
(* allocation_breakdown, and leaves the used and remaining amounts of      *)
(* every yearly record as they were.                                       *)

\* Thread t returns from apply_for_leave in this step.
ApplyReturns(t) == pc[t] = "apply_for_leave_append" /\ pc'[t] = "idle"

C11_Step ==
    \A t \in Threads :
        /\ (/\ pc[t] = "apply_for_leave"
            /\ pc'[t] # "apply_for_leave"
            /\ call[t].employee_id \in DOMAIN local[t].employees)
           => /\ pc'[t] = "apply_for_leave_append"
              /\ \A k \in RecordKeys(store) \cap RecordKeys(store') : SameAmounts(k)
        /\ ApplyReturns(t)
           => /\ ret'[t].code = "ok"
              /\ issued' \in DOMAIN store'.applications
              /\ store'.applications[issued'].status = "pending"
              /\ store'.applications[issued'].history = <<>>
              /\ ~store'.applications[issued'].allocation_breakdown.present
              /\ \A k \in RecordKeys(store) \cap RecordKeys(store') : SameAmounts(k)

C11_ApplyChecksNoBalance == [][C11_Step]_vars

---------------------------------------------------------------------------
(* C12. Employee ids are unique: create_employee with an id the stored     *)
(* document already holds fails with DuplicateEmployee and leaves that     *)
(* employee's name, records and applications as they are, so of the        *)
(* create_employee calls with one id, in any order or interleaving, at     *)
(* most one succeeds.                                                      *)

\* Thread t returns from create_employee in this step.
CreateReturns(t) == pc[t] = "create_employee" /\ pc'[t] = "idle"

C12_Step ==
    \A t \in Threads :
        (CreateReturns(t) /\ call[t].employee_id \in DOMAIN store.employees)
        => /\ ret'[t].code = "DuplicateEmployee"
           /\ store' = store

C12_UniqueEmployee == [][C12_Step]_vars

---------------------------------------------------------------------------
(* C13. Every mutating operation (create_employee, apply_for_leave,        *)
(* decide_leave, a get_balance that makes a record) runs its load, its     *)
(* computation and its save as one critical section: no other thread loads *)
(* or saves between an operation's load and its save.                      *)

\* decide_leave of thread t, with the state it loaded, gets as far as a
\* save_state: the application is there and pending, and either the record
\* has to be made or the balance check passes.
DecideSaves(t) ==
    LET loaded == local[t]
        application_id == call[t].application_id
    IN  /\ application_id \in DOMAIN loaded.applications
        /\ is_pending(loaded.applications[application_id])
        /\ loaded.applications[application_id].employee_id \in DOMAIN loaded.employees
        /\ LET application == loaded.applications[application_id]
               got == get_or_create_year_record(loaded, application.employee_id,
                                                application.year)
               record == RecordOf(got.state, application.employee_id, application.year)
           IN  got.saved \/ decision_split(record, application, call[t].decision).ok

\* Thread t has run load_state and has a save_state ahead of it.
SaveAhead(t) ==
    \/ pc[t] = "create_employee" /\ call[t].employee_id \notin DOMAIN local[t].employees
    \/ pc[t] = "apply_for_leave" /\ call[t].employee_id \in DOMAIN local[t].employees
    \/ pc[t] = "apply_for_leave_append"
    \/ pc[t] = "decide_leave" /\ DecideSaves(t)
    \/ /\ pc[t] = "get_balance"
       /\ call[t].employee_id \in DOMAIN local[t].employees
       /\ ~HasYearRecord(local[t], call[t].employee_id, call[t].year)

\* Thread u runs load_state in this step.
Loads(u) == pc[u] = "idle" /\ pc'[u] # "idle"

\* Thread u runs save_state in this step.
Saves(u) ==
    /\ pc'[u] # pc[u]
    /\ \/ SaveAhead(u) /\ pc[u] # "apply_for_leave"
       \/ /\ pc[u] = "apply_for_leave"
          /\ call[u].employee_id \in DOMAIN local[u].employees
          /\ ~HasYearRecord(local[u], call[u].employee_id, call[u].year)

C13_Step ==
    \A t \in Threads, u \in Threads :
        (t # u /\ SaveAhead(t)) => ~(Loads(u) \/ Saves(u))

C13_CriticalSection == [][C13_Step]_vars

---------------------------------------------------------------------------
(* C14. Nothing is lost from the stored document: an employee or an        *)
(* application that create_employee or apply_for_leave has stored is in    *)
(* every later stored document, and a decided application never goes back  *)
(* to pending, in any sequence and any interleaving of the operations.     *)

C14_Step ==
    /\ DOMAIN store.employees \subseteq DOMAIN store'.employees
    /\ DOMAIN store.applications \subseteq DOMAIN store'.applications
    /\ \A id \in (DOMAIN store.applications) \cap (DOMAIN store'.applications) :
           store.applications[id].status # "pending"
           => store'.applications[id].status # "pending"

C14_NothingLost == [][C14_Step]_vars

---------------------------------------------------------------------------
(* storage.py statement by statement, with crashes of the process.         *)
(*                                                                         *)
(* Path.write_text opens the file for writing, which creates or truncates  *)
(* it, then writes the text and closes it: between the two the file is     *)
(* there and holds less than the text ("partial").  Path.replace renames   *)
(* in one step.  A crash ends every thread and frees the lock; the files   *)
(* stay as they are.  The callers are create_employee calls.               *)

\* The positions inside load_state and save_state, by function and label.
Position ==
    [load_state |->
        [ensure |-> "load_state.ensure", ensure_lock |-> "load_state.ensure_lock",
         ensure_locked |-> "load_state.ensure_locked",
         ensure_write |-> "load_state.ensure_write", lock |-> "load_state.lock"],
     save_state |->
        [ensure |-> "save_state.ensure", ensure_lock |-> "save_state.ensure_lock",
         ensure_locked |-> "save_state.ensure_locked",
         ensure_write |-> "save_state.ensure_write", lock |-> "save_state.lock",
         tmp_open |-> "save_state.tmp_open", tmp_write |-> "save_state.tmp_write",
         replace |-> "save_state.replace"]]

At(t, function, label) == pc[t] = Position[function][label]

Goto(t, function, label) == pc' = [pc EXCEPT ![t] = Position[function][label]]

InitCrash ==
    /\ store = EmptyDoc
    /\ issued = 0
    /\ pc = [t \in Threads |-> "idle"]
    /\ local = [t \in Threads |-> EmptyDoc]
    /\ call = [t \in Threads |-> NoCall]
    /\ ret = [t \in Threads |-> NoRet]
    /\ storage = [file |-> "absent", tmp |-> NoTmp, lock |-> 0]

\* create_employee is called: load_state begins with _ensure_storage_file.
crash_create_employee_call(t, name, employee_id) ==
    /\ pc[t] = "idle"
    /\ Goto(t, "load_state", "ensure")
    /\ call' = [call EXCEPT ![t] = [NoCall EXCEPT !.op = "create_employee",
                                        !.name = name, !.employee_id = employee_id]]
    /\ ret' = [ret EXCEPT ![t] = NoRet]
    /\ UNCHANGED <<store, issued, local, storage>>

\* _ensure_storage_file, line 18: if not _STATE_FILE.exists().
ensure_storage_file_check(t) ==
    \E function \in {"load_state", "save_state"} :
        /\ At(t, function, "ensure")
        /\ IF storage.file = "absent"
           THEN Goto(t, function, "ensure_lock")
           ELSE Goto(t, function, "lock")
        /\ UNCHANGED <<store, issued, local, call, ret, storage>>

\* Line 19: with _STATE_LOCK.
ensure_storage_file_lock(t) ==
    \E function \in {"load_state", "save_state"} :
        /\ At(t, function, "ensure_lock")
        /\ storage.lock = 0
        /\ storage' = [storage EXCEPT !.lock = t]
        /\ Goto(t, function, "ensure_locked")
        /\ UNCHANGED <<store, issued, local, call, ret>>

\* Lines 20-21: the second exists(), and write_text opening state.json.
ensure_storage_file_open(t) ==
    \E function \in {"load_state", "save_state"} :
        /\ At(t, function, "ensure_locked")
        /\ IF storage.file = "absent"
           THEN /\ storage' = [storage EXCEPT !.file = "partial"]
                /\ Goto(t, function, "ensure_write")
           ELSE /\ storage' = [storage EXCEPT !.lock = 0]
                /\ Goto(t, function, "lock")
        /\ UNCHANGED <<store, issued, local, call, ret>>

\* Line 21: write_text writes the empty document and closes state.json.
ensure_storage_file_write(t) ==
    \E function \in {"load_state", "save_state"} :
        /\ At(t, function, "ensure_write")
        /\ storage' = [storage EXCEPT !.file = "complete", !.lock = 0]
        /\ store' = EmptyDoc
        /\ Goto(t, function, "lock")
        /\ UNCHANGED <<issued, local, call, ret>>

\* load_state, lines 27-29: json.loads(read_text()) under the lock.
load_state_read(t) ==
    /\ At(t, "load_state", "lock")
    /\ storage.lock = 0
    /\ IF storage.file = "complete"
       THEN /\ local' = [local EXCEPT ![t] = load_state]
            /\ pc' = [pc EXCEPT ![t] = "create_employee"]
            /\ UNCHANGED <<store, issued, call, ret, storage>>
       ELSE Fail(t, IF storage.file = "partial" THEN "JSONDecodeError"
                                                ELSE "FileNotFoundError")

\* create_employee between its load_state and its save_state.
crash_create_employee_compute(t) ==
    /\ pc[t] = "create_employee"
    /\ LET state == local[t]
           employee_id == call[t].employee_id
           employee == ensure_year_record(
               [id |-> employee_id, name |-> call[t].name,
                yearly_records |-> EmptyMap], CurrentYear)
       IN  IF employee_id \in DOMAIN state.employees
           THEN Fail(t, "DuplicateEmployee")
           ELSE /\ local' = [local EXCEPT ![t] =
                       [state EXCEPT !.employees = Put(@, employee_id, employee)]]
                /\ Goto(t, "save_state", "ensure")
                /\ UNCHANGED <<store, issued, call, ret, storage>>

\* save_state, line 35: with _STATE_LOCK.
save_state_lock(t) ==
    /\ At(t, "save_state", "lock")
    /\ storage.lock = 0
    /\ storage' = [storage EXCEPT !.lock = t]
    /\ Goto(t, "save_state", "tmp_open")
    /\ UNCHANGED <<store, issued, local, call, ret>>

\* Line 37: write_text opens state.tmp.
save_state_tmp_open(t) ==
    /\ At(t, "save_state", "tmp_open")
    /\ storage' = [storage EXCEPT !.tmp = [state |-> "partial", doc |-> EmptyDoc]]
    /\ Goto(t, "save_state", "tmp_write")
    /\ UNCHANGED <<store, issued, local, call, ret>>

\* Line 37: write_text writes json.dumps(state) and closes state.tmp.
save_state_tmp_write(t) ==
    /\ At(t, "save_state", "tmp_write")
    /\ storage' = [storage EXCEPT !.tmp = [state |-> "complete", doc |-> local[t]]]
    /\ Goto(t, "save_state", "replace")
    /\ UNCHANGED <<store, issued, local, call, ret>>

\* As save_state_replace, with the lock kept after the rename.
save_state_replace_keeps_lock(t) ==
    /\ At(t, "save_state", "replace")
    /\ store' = save_state(storage.tmp.doc)
    /\ storage' = [file |-> storage.tmp.state, tmp |-> NoTmp, lock |-> t]
    /\ Leave(t, Ok)
    /\ UNCHANGED issued

\* Line 38: temp_path.replace(_STATE_FILE); the lock is released and
\* create_employee returns.
save_state_replace(t) ==
    /\ At(t, "save_state", "replace")
    /\ store' = save_state(storage.tmp.doc)
    /\ storage' = [file |-> storage.tmp.state, tmp |-> NoTmp, lock |-> 0]
    /\ Leave(t, Ok)
    /\ UNCHANGED issued

\* The process dies while some call is under way and is started again.
Crash ==
    /\ \E t \in Threads : pc[t] # "idle"
    /\ pc' = [t \in Threads |-> "idle"]
    /\ local' = [t \in Threads |-> EmptyDoc]
    /\ ret' = [t \in Threads |-> NoRet]
    /\ storage' = [storage EXCEPT !.lock = 0]
    /\ UNCHANGED <<store, issued, call>>

CrashEmployeeIds == {"e1", "e2"}

NextCrash ==
    \/ \E t \in Threads, employee_id \in CrashEmployeeIds :
           crash_create_employee_call(t, "Ann", employee_id)
    \/ \E t \in Threads :
           \/ ensure_storage_file_check(t)
           \/ ensure_storage_file_lock(t)
           \/ ensure_storage_file_open(t)
           \/ ensure_storage_file_write(t)
           \/ load_state_read(t)
           \/ crash_create_employee_compute(t)
           \/ save_state_lock(t)
           \/ save_state_tmp_open(t)
           \/ save_state_tmp_write(t)
           \/ save_state_replace(t)
    \/ Crash

SpecCrash == InitCrash /\ [][NextCrash]_vars

---------------------------------------------------------------------------
(* C15. A crash at any point of a save never leaves a half-written         *)
(* document for a later load to read: at every moment state.json holds the *)
(* whole document committed before or the whole new one, the new content   *)
(* being written to state.tmp and renamed over state.json.                 *)

C15_NeverHalfWritten ==
    /\ storage.lock = 0 => storage.file # "partial"
    /\ \A t \in Threads : ret[t].code # "JSONDecodeError"

---------------------------------------------------------------------------
(* The queries get_employee and get_applications: they load the document   *)
(* and return a part of it; the part returned is not kept in the model.    *)

get_employee_call(t, employee_id) ==
    Enter(t, [NoCall EXCEPT !.op = "get_employee", !.employee_id = employee_id],
          "get_employee")

get_employee_return(t) ==
    /\ pc[t] = "get_employee"
    /\ IF call[t].employee_id \notin DOMAIN local[t].employees
       THEN Fail(t, "NotFound")
       ELSE /\ Leave(t, Ok)
            /\ UNCHANGED <<store, issued, storage>>

get_applications_call(t) ==
    Enter(t, [NoCall EXCEPT !.op = "get_applications"], "get_applications")

get_applications_return(t) ==
    /\ pc[t] = "get_applications"
    /\ Leave(t, Ok)
    /\ UNCHANGED <<store, issued, storage>>

QueryCalls(t, in) ==
    \/ \E employee_id \in in.employee_ids : get_employee_call(t, employee_id)
    \/ get_applications_call(t)

QuerySteps(t) ==
    \/ get_employee_return(t)
    \/ get_applications_return(t)

\* One caller of the operations and the queries.
NextQueries ==
    \/ Calls(1, SpecInputs)
    \/ QueryCalls(1, SpecInputs)
    \/ Steps(1)
    \/ QuerySteps(1)

SpecQueries == Init /\ [][NextQueries]_vars

---------------------------------------------------------------------------
(* C16. get_balance changes the stored document at most by adding the      *)
(* missing yearly record of the employee and year asked for: when that     *)
(* record exists the document is unchanged, and no existing record, no     *)
(* application and no other employee is ever changed by it.                *)
(* get_applications and get_employee never change the stored document.     *)

\* Thread t returns from get_balance in this step.
GetBalanceReturns(t) == pc[t] = "get_balance" /\ pc'[t] = "idle"

\* after is before, or before with the record (employee_id, year) added.
AddsAtMostRecord(before, after, employee_id, year) ==
    \/ after = before
    \/ /\ employee_id \in DOMAIN before.employees
       /\ ~HasYearRecord(before, employee_id, year)
       /\ HasYearRecord(after, employee_id, year)
       /\ after = [before EXCEPT !.employees[employee_id].yearly_records =
                       Put(@, year, RecordOf(after, employee_id, year))]

C16_Step ==
    \A t \in Threads :
        /\ GetBalanceReturns(t)
           => /\ AddsAtMostRecord(store, store', call[t].employee_id, call[t].year)
              /\ HasYearRecord(local[t], call[t].employee_id, call[t].year)
                 => store' = store
        /\ (pc[t] \in {"get_employee", "get_applications"} /\ pc'[t] = "idle")
           => store' = store

C16_QueriesAddOnlyRecord == [][C16_Step]_vars

---------------------------------------------------------------------------
(* C17. An operation that fails with an error (NotFound, DuplicateEmployee,*)
(* InvalidLeaveType, InvalidDate, InvalidDecision, InvalidState,           *)
(* InsufficientBalance) leaves the stored document exactly as it was       *)
(* before the call: it has saved nothing by the time it raises, and the    *)
(* step that raises saves nothing.                                         *)

ErrorCodes == {"NotFound", "DuplicateEmployee", "InvalidLeaveType", "InvalidDate",
               "InvalidDecision", "InvalidState", "InsufficientBalance"}

\* The positions an operation is in before its first save_state.
BeforeFirstSave == {"idle", "create_employee", "apply_for_leave", "decide_leave",
                    "get_balance", "get_employee", "get_applications"}

\* Thread t raises an error in this step.
Raises(t) == ret'[t] # ret[t] /\ ret'[t].code \in ErrorCodes

C17_Step ==
    \A t \in Threads :
        Raises(t) => /\ store' = store
                     /\ pc[t] \in BeforeFirstSave

C17_FailureWritesNothing == [][C17_Step]_vars

\* Each error the callers can provoke has been raised over a document that
\* holds an employee with an application.
C17_Witness ==
    /\ store.applications # EmptyMap
    /\ ret[1].code \in ErrorCodes

---------------------------------------------------------------------------
(* C18. In every stored document the copy of an application in the         *)
(* application index and the copy in the list of its yearly record agree   *)
(* on status, history and allocation_breakdown; after decide_leave has     *)
(* succeeded both show the decision and the breakdown.                     *)

C18_CopiesAgree ==
    \A k \in RecordKeys(store) :
        LET applications == RecordOf(store, k[1], k[2]).applications IN
        \A i \in 1..Len(applications) :
            applications[i].id \in DOMAIN store.applications
            => LET indexed == store.applications[applications[i].id] IN
               /\ applications[i].status = indexed.status
               /\ applications[i].history = indexed.history
               /\ applications[i].allocation_breakdown = indexed.allocation_breakdown

---------------------------------------------------------------------------
(* C19. In every stored document each application of the application index *)
(* is exactly once in the list of the yearly record of its own employee    *)
(* and year and in no other record's list, and each application of a       *)
(* record's list is in the index under its id.                             *)

\* How often the application id is in the list of record k.
TimesListed(doc, k, id) ==
    Cardinality({i \in 1..Len(RecordOf(doc, k[1], k[2]).applications) :
                     RecordOf(doc, k[1], k[2]).applications[i].id = id})

C19_IndexAndRecordsLinked ==
    /\ \A id \in DOMAIN store.applications :
           LET app == store.applications[id] IN
           /\ app.id = id
           /\ <<app.employee_id, app.year>> \in RecordKeys(store)
           /\ \A k \in RecordKeys(store) :
                  TimesListed(store, k, id)
                      = IF k = <<app.employee_id, app.year>> THEN 1 ELSE 0
    /\ \A k \in RecordKeys(store) :
           \A i \in 1..Len(RecordOf(store, k[1], k[2]).applications) :
               LET listed == RecordOf(store, k[1], k[2]).applications[i] IN
               /\ listed.id \in DOMAIN store.applications
               /\ listed.employee_id = k[1]
               /\ listed.year = k[2]

\* Two applications of different years are stored.
C19_Witness ==
    \E a \in DOMAIN store.applications, b \in DOMAIN store.applications :
        /\ store.applications[a].year # store.applications[b].year
        /\ TimesListed(store, <<store.applications[a].employee_id,
                                store.applications[a].year>>, a) = 1

---------------------------------------------------------------------------
(* C20. When two decide_leave calls run concurrently on the same pending   *)
(* application, at most one returns success and the other fails with       *)
(* InvalidState; the application ends with exactly one history entry,      *)
(* whose decision is its final status.                                     *)

\* Thread t returns from decide_leave of an application it loaded as
\* pending, which thread u has decided with success since.
OverlappingDecisions(t, u) ==
    LET id == call[t].application_id IN
    /\ DecideReturns(t)
    /\ Returned(u, "decide_leave")
    /\ ret[u].code = "ok"
    /\ call[u].application_id = id
    /\ id \in DOMAIN local[t].applications
    /\ local[t].applications[id].status = "pending"
    /\ id \in DOMAIN store.applications
    /\ store.applications[id].status = call[u].decision

C20_Step ==
    \A t \in Threads, u \in Threads :
        (t # u /\ OverlappingDecisions(t, u))
        => LET after == store'.applications[call[t].application_id] IN
           /\ ret'[t].code = "InvalidState"
           /\ Len(after.history) = 1
           /\ after.history[1].decision = after.status

C20_OneDecisionWins == [][C20_Step]_vars

---------------------------------------------------------------------------
(* C21. For every approved application allocation_breakdown.carry_over and *)
(* allocation_breakdown.current_year are both at least 0 and sum to the    *)
(* application's duration; for every rejected application both are 0; a    *)
(* pending application has no allocation_breakdown.                        *)

\* The breakdown fits the status of the application.
BreakdownFits(app) ==
    CASE app.status = "approved" ->
             /\ app.allocation_breakdown.present
             /\ app.allocation_breakdown.carry_over >= 0
             /\ app.allocation_breakdown.current_year >= 0
             /\ app.allocation_breakdown.carry_over
                    + app.allocation_breakdown.current_year = app.duration
      [] app.status = "rejected" -> app.allocation_breakdown = Breakdown(0, 0)
      [] app.status = "pending" -> ~app.allocation_breakdown.present
      [] OTHER -> FALSE

C21_BreakdownMatchesStatus ==
    /\ \A id \in DOMAIN store.applications : BreakdownFits(store.applications[id])
    /\ \A k \in RecordKeys(store) :
           \A i \in 1..Len(RecordOf(store, k[1], k[2]).applications) :
               BreakdownFits(RecordOf(store, k[1], k[2]).applications[i])

\* An application approved out of the carry-over and a rejected one are
\* stored.
C21_Witness ==
    \E a \in DOMAIN store.applications, b \in DOMAIN store.applications :
        /\ store.applications[a].status = "approved"
        /\ store.applications[a].allocation_breakdown.carry_over > 0
        /\ store.applications[b].status = "rejected"

---------------------------------------------------------------------------
(* C22. In every stored document an application's history is empty exactly *)
(* when its status is pending, and a decided application has exactly one   *)
(* history entry, whose decision is the application's status; history      *)
(* entries are never removed or altered.                                   *)

\* The history fits the status of the application.
HistoryFits(app) ==
    /\ app.history = <<>> <=> app.status = "pending"
    /\ app.status # "pending"
       => /\ Len(app.history) = 1
          /\ app.history[1].decision = app.status

\* The history `before` is the beginning of the history `after`.
IsPrefix(before, after) ==
    /\ Len(before) <= Len(after)
    /\ \A i \in 1..Len(before) : after[i] = before[i]

C22_Step ==
    /\ \A id \in DOMAIN store'.applications : HistoryFits(store'.applications[id])
    /\ \A k \in RecordKeys(store') :
           \A i \in 1..Len(RecordOf(store', k[1], k[2]).applications) :
               HistoryFits(RecordOf(store', k[1], k[2]).applications[i])
    /\ \A id \in (DOMAIN store.applications) \cap (DOMAIN store'.applications) :
           IsPrefix(store.applications[id].history, store'.applications[id].history)

C22_HistoryKept == [][C22_Step]_vars

---------------------------------------------------------------------------
(* storage.py statement by statement, without crashes, under a fair        *)
(* scheduler: a thread that can take its next step from some moment on     *)
(* takes it; a thread waiting for _STATE_LOCK can do so while the lock is  *)
(* free.  Nothing makes a caller start an operation.                       *)

\* The steps of thread t that wait for _STATE_LOCK.
LockSteps(t) ==
    \/ ensure_storage_file_lock(t)
    \/ load_state_read(t)
    \/ save_state_lock(t)

\* The other steps of thread t inside an operation.
FreeSteps(t) ==
    \/ ensure_storage_file_check(t)
    \/ ensure_storage_file_open(t)
    \/ ensure_storage_file_write(t)
    \/ crash_create_employee_compute(t)
    \/ save_state_tmp_open(t)
    \/ save_state_tmp_write(t)
    \/ save_state_replace(t)

NextLock ==
    \/ \E t \in Threads, employee_id \in CrashEmployeeIds :
           crash_create_employee_call(t, "Ann", employee_id)
    \/ \E t \in Threads : LockSteps(t) \/ FreeSteps(t)

FairScheduling ==
    \A t \in Threads : WF_vars(FreeSteps(t)) /\ WF_vars(LockSteps(t))

SpecLock == InitCrash /\ [][NextLock]_vars /\ FairScheduling

---------------------------------------------------------------------------
(* C23. No interleaving of concurrent operations deadlocks on the store    *)
(* lock: a thread never asks for the lock while it holds it, the lock is   *)
(* always released, and under fair scheduling every operation that was     *)
(* started returns a result or an error.                                   *)

\* The positions at which a thread asks for _STATE_LOCK.
LockRequests ==
    {Position.load_state.ensure_lock, Position.load_state.lock,
     Position.save_state.ensure_lock, Position.save_state.lock}

\* The positions inside a `with _STATE_LOCK` block.
LockHeld ==
    {Position.load_state.ensure_locked, Position.load_state.ensure_write,
     Position.save_state.ensure_locked, Position.save_state.ensure_write,
     Position.save_state.tmp_open, Position.save_state.tmp_write,
     Position.save_state.replace}

LockDiscipline ==
    \A t \in Threads :
        /\ pc[t] \in LockRequests => storage.lock # t
        /\ pc[t] \in LockHeld <=> storage.lock = t

C23_NoDeadlock ==
    /\ []LockDiscipline
    /\ \A t \in Threads : (pc[t] # "idle") ~> (pc[t] = "idle" /\ ret[t] # NoRet)

\* Thread 1 waits to save while thread 2 holds the lock inside save_state.
C23_Witness ==
    /\ pc[1] = Position.save_state.lock
    /\ storage.lock = 2
    /\ pc[2] = Position.save_state.tmp_write

====
